---- MODULE Spec2Model ----
(***************************************************************************)
(* Model of the tangods_serialline Tango device server: the buffered       *)
(* reader/writer in tangods_serialline/core.py (class Serial) and the      *)
(* command layer in tangods_serialline/tango/server/serial_device.py       *)
(* (safe_reconnection, connect and the DevSer* commands).                  *)
(*                                                                         *)
(* A byte is a record [id, v]: v is the byte value, id numbers the bytes   *)
(* of the channel in arrival order (id 0 marks a byte that never came      *)
(* from the channel, such as the NUL that a Raw read appends).             *)
(***************************************************************************)
EXTENDS Integers, Sequences, FiniteSets, TLC

\* ---------------------------------------------------------------- bounds
MaxBytes == 2          \* bytes the peer sends over the whole run
MaxArg == 3            \* largest numeric argument packed into a read argin
MaxOut == 1            \* capacity of the modelled output queue
MaxLine == 8           \* longest buffer the Line reads start from
MaxEcho == 3            \* bytes written to the loopback channel in a run
MaxDecode == 3          \* longest buffer the packed-argument reads start from
MaxBatch == 2          \* most (tag, value) pairs in one DevSerSetParameter call

\* ---------------------------------------------------- program constants
NUL == 0                 \* the byte a Raw read appends
NewlineProperty == 13    \* default of the newline device property
RawTag == 0
NCharTag == 1
LineTag == 2
RetryTag == 3
TimeoutTag == 3          \* Parameter.Timeout
ParityTag == 4           \* Parameter.Parity
CharlengthTag == 5       \* Parameter.Charlength
StopbitsTag == 6         \* Parameter.Stopbits
BaudrateTag == 7         \* Parameter.Baudrate
NewlineTag == 8          \* Parameter.Newline

\* ------------------------------------------------------ input domains
\* byte values the peer sends: carriage return and the letter A
ArrivalBytes == {NewlineProperty, 65}
\* arguments of DevSerSetNewline; 200 is not an ASCII code
NewlineInputs == {NewlineProperty, 65, 200}
\* packed read arguments: tag in the low 4 bits (RetryTag + 1 is no known mode),
\* numeric argument from bit 8 up
ReadArgs == {RawTag, LineTag, RetryTag + 1} \cup {a * 256 + t : a \in 0..MaxArg, t \in {NCharTag, RetryTag}}
ClearOptions == 0..3
WriteInputs == {<<65>>}
\* arguments of the setter commands; 99, 4 and 3 are outside the enumerations
ParityInputs == {0, 1, 3, 99}
CharlengthInputs == 0..4
StopbitsInputs == 0..3
BaudrateInputs == {9600, 115200}
TimeoutInputs == {100, 200}
\* (tag, value) pairs of DevSerSetParameter; 9 is no parameter tag
PairInputs == {<<BaudrateTag, 115200>>, <<ParityTag, 99>>, <<ParityTag, 3>>,
               <<StopbitsTag, 1>>, <<NewlineTag, 65>>, <<9, 0>>}

VARIABLES
    read_buffer,   \* Serial.read_buffer of the current core object
    newline,       \* Serial._newline of the current core object (byte value)
    connected,     \* device.connected
    inq,           \* bytes received by the channel and not yet drained
    outq,          \* bytes written to the channel and not yet transmitted
    comOk,         \* I/O on the current channel handle succeeds
    nArrived,      \* number of bytes the peer has sent so far
    call,          \* the command in flight or the last one completed
    delivered,     \* ids of the bytes returned by some completed read call
    consumed,      \* ids of the bytes returned by a completed Raw, NChar or Line read
    com,           \* settings of the open channel (self._com of the core object)
    props,         \* the device properties
    readers,       \* threads calling Serial.read directly, and what they returned
    discarded      \* ids of the bytes held by the ReadBuffer of a core object that was replaced

vars == <<read_buffer, newline, connected, inq, outq, comOk, nArrived, call, delivered, consumed,
          com, props, readers, discarded>>

\* ------------------------------------------------------- pure helpers
Min(a, b) == IF a < b THEN a ELSE b
Max(a, b) == IF a > b THEN a ELSE b

Ids(s) == [i \in 1..Len(s) |-> s[i].id]
IdSet(s) == {s[i].id : i \in 1..Len(s)} \ {0}

\* variant of Take: the slice s[:n + 1]
TakeOneMore(s, n) == SubSeq(s, 1, Min(n + 1, Len(s)))
\* s[:n] of Python, for n >= 0
Take(s, n) == SubSeq(s, 1, Min(n, Len(s)))
\* variant of Drop: the buffer is not cut
DropKeepsAll(s, n) == s
\* s[n:] of Python, for n >= 0
Drop(s, n) == SubSeq(s, Min(n, Len(s)) + 1, Len(s))

\* variant of FirstIndex: the last byte of value nl (rpartition)
LastIndex(s, nl) ==
    IF \E i \in 1..Len(s) : s[i].v = nl
    THEN CHOOSE i \in 1..Len(s) : s[i].v = nl /\ \A j \in (i + 1)..Len(s) : s[j].v # nl
    ELSE 0
\* index of the first byte of value nl in s, 0 when there is none
FirstIndex(s, nl) ==
    IF \E i \in 1..Len(s) : s[i].v = nl
    THEN CHOOSE i \in 1..Len(s) : s[i].v = nl /\ \A j \in 1..(i - 1) : s[j].v # nl
    ELSE 0

\* bytearray.partition(sep) for a one-byte separator
\* variant of Partition: what follows the separator is the whole sequence
PartitionKeepsAll(s, nl) ==
    LET k == FirstIndex(s, nl) IN
    IF k = 0 THEN [before |-> s, sep |-> <<>>, after |-> <<>>]
    ELSE [before |-> SubSeq(s, 1, k - 1), sep |-> <<s[k]>>, after |-> s]
Partition(s, nl) ==
    LET k == FirstIndex(s, nl) IN
    IF k = 0 THEN [before |-> s, sep |-> <<>>, after |-> <<>>]
    ELSE [before |-> SubSeq(s, 1, k - 1), sep |-> <<s[k]>>, after |-> SubSeq(s, k + 1, Len(s))]

\* chr(value).encode('ascii'): defined for 0..127 only
AsciiOk(value) == value \in 0..127

\* variant of ReadType: only the low 2 bits select the mode
ReadTypeTwoBits(argin) == argin % 4
ReadType(argin) == argin % 16
\* variant of ReadArg: the argument is taken from bit 4 upwards
ReadArgFromBit4(argin) == argin \div 16
ReadArg(argin) == argin \div 256

\* variant of ExtendBuffer: the data is put in front of the buffer
ExtendBufferFront(buf, data) == data \o buf
\* self.read_buffer.extend(data)
ExtendBuffer(buf, data) == buf \o data

\* variant of RawRead: the buffer is not replaced by an empty one
RawReadKeepsBuffer(buf) ==
    [ret |-> ExtendBuffer(buf, <<[id |-> 0, v |-> NUL]>>), buf |-> ExtendBuffer(buf, <<[id |-> 0, v |-> NUL]>>)]
\* Raw branch: the NUL is appended to the buffer, the buffer is returned and replaced
RawRead(buf) ==
    [ret |-> ExtendBuffer(buf, <<[id |-> 0, v |-> NUL]>>), buf |-> <<>>]

\* NChar branch
NCharRead(buf, nchar) ==
    [ret |-> Take(buf, nchar), buf |-> Drop(buf, nchar)]

\* variant of LineRead: the separator stays at the front of the buffer
LineReadKeepsSeparator(buf, nl) ==
    [ret |-> Partition(buf, nl).before, buf |-> Partition(buf, nl).sep \o Partition(buf, nl).after]
\* Line branch
LineRead(buf, nl) ==
    [ret |-> Partition(buf, nl).before, buf |-> Partition(buf, nl).after]

\* variant of RetryCount: (argin >> 8) + 1
RetryCountPlusOne(argin) == ReadArg(argin) + 1
\* Retry branch: nretry, the number of iterations of its loop
RetryCount(argin) == ReadArg(argin) - 1

\* variant of RetryReturn: the buffer is emptied as in the Raw branch
RetryReturnConsumes(buf) ==
    [ret |-> buf, buf |-> <<>>]
\* Retry branch: the value returned after the loop; the buffer is kept
RetryReturn(buf) ==
    [ret |-> buf, buf |-> buf]

\* The mode dispatch of Serial.read on the buffer obtained after the first drain.
\* kind: "return" (ret is the value), "loop" (Retry enters its loop), "error".
\* variant of Dispatch: Raw returns the buffer as Retry does, without the NUL
DispatchRawAsRetry(buf, nl, argin) ==
    LET t == ReadType(argin)
        Ret(r, c) == [kind |-> "return", ret |-> r.ret, buf |-> r.buf, nretry |-> 0, consumes |-> c]
    IN
    CASE t = RawTag -> Ret(RetryReturn(buf), FALSE)
      [] t = NCharTag -> Ret(NCharRead(buf, ReadArg(argin)), TRUE)
      [] t = LineTag -> Ret(LineRead(buf, nl), TRUE)
      [] t = RetryTag ->
           IF RetryCount(argin) > 0
           THEN [kind |-> "loop", ret |-> <<>>, buf |-> buf, nretry |-> RetryCount(argin), consumes |-> FALSE]
           ELSE [Ret(RetryReturn(buf), FALSE) EXCEPT !.nretry = RetryCount(argin)]
      [] OTHER ->
           [kind |-> "error", ret |-> <<>>, buf |-> buf, nretry |-> 0, consumes |-> FALSE]
Dispatch(buf, nl, argin) ==
    LET t == ReadType(argin)
        Ret(r, c) == [kind |-> "return", ret |-> r.ret, buf |-> r.buf, nretry |-> 0, consumes |-> c]
    IN
    CASE t = RawTag -> Ret(RawRead(buf), TRUE)
      [] t = NCharTag -> Ret(NCharRead(buf, ReadArg(argin)), TRUE)
      [] t = LineTag -> Ret(LineRead(buf, nl), TRUE)
      [] t = RetryTag ->
           IF RetryCount(argin) > 0
           THEN [kind |-> "loop", ret |-> <<>>, buf |-> buf, nretry |-> RetryCount(argin), consumes |-> FALSE]
           ELSE [Ret(RetryReturn(buf), FALSE) EXCEPT !.nretry = RetryCount(argin)]
      [] OTHER ->
           [kind |-> "error", ret |-> <<>>, buf |-> buf, nretry |-> 0, consumes |-> FALSE]

\* bytes.decode("UTF-8") on a sequence of byte values: the code points, or the
\* failure (UnicodeDecodeError) at the first ill-formed sequence
Continuation(vals, k, lo, hi) == Len(vals) >= k /\ vals[k] >= lo /\ vals[k] <= hi
RECURSIVE Utf8Decode(_)
Utf8Decode(vals) ==
    IF vals = <<>> THEN [ok |-> TRUE, chars |-> <<>>]
    ELSE LET b == vals[1]
             n == CASE b < 128 -> 1
                    [] b \in 194..223 /\ Continuation(vals, 2, 128, 191) -> 2
                    [] b \in 224..239
                         /\ Continuation(vals, 2, IF b = 224 THEN 160 ELSE 128, IF b = 237 THEN 159 ELSE 191)
                         /\ Continuation(vals, 3, 128, 191) -> 3
                    [] b \in 240..244
                         /\ Continuation(vals, 2, IF b = 240 THEN 144 ELSE 128, IF b = 244 THEN 143 ELSE 191)
                         /\ Continuation(vals, 3, 128, 191)
                         /\ Continuation(vals, 4, 128, 191) -> 4
                    [] OTHER -> 0
             cp == CASE n = 1 -> b
                     [] n = 2 -> (b - 192) * 64 + (vals[2] - 128)
                     [] n = 3 -> (b - 224) * 4096 + (vals[2] - 128) * 64 + (vals[3] - 128)
                     [] n = 4 -> (b - 240) * 262144 + (vals[2] - 128) * 4096
                                    + (vals[3] - 128) * 64 + (vals[4] - 128)
                     [] OTHER -> 0
         IN IF n = 0 THEN [ok |-> FALSE, chars |-> <<>>]
            ELSE LET rest == Utf8Decode(SubSeq(vals, n + 1, Len(vals))) IN
                 IF rest.ok THEN [ok |-> TRUE, chars |-> <<cp>> \o rest.chars]
                 ELSE [ok |-> FALSE, chars |-> <<>>]

\* the byte values of a sequence of received bytes
Values(s) == [i \in 1..Len(s) |-> s[i].v]

\* ------------------------------------------------ channel settings
\* the defaults of the device properties
DefaultProps ==
    [baudrate |-> 9600, charlength |-> 8, newline |-> NewlineProperty,
     parity |-> "none", timeout |-> 100, stopbits |-> 1]

\* value / 1000.0: milliseconds to seconds, kept as a fraction
Seconds(ms) == [num |-> ms, den |-> 1000]

\* str.lower() on the parity names used here
Lower(str) ==
    CASE str = "Even" -> "even"
      [] str = "NONE" -> "none"
      [] OTHER -> str

\* variant of CoreInit: the device is opened before the settings are checked
CoreInitOpensFirst(p, opens) ==
    LET fail(e) == [result |-> e, opens |-> 1, newline |-> 0, com |-> <<>>]
        par == Lower(p.parity)
    IN
    IF ~opens THEN fail("SerialException")
    ELSE IF ~AsciiOk(p.newline) THEN fail("UnicodeEncodeError")
    ELSE IF p.charlength \notin {5, 6, 7, 8} THEN fail("ValueError")
    ELSE IF par \notin {"none", "empty", "even", "odd"} THEN fail("ValueError")
    ELSE IF p.stopbits \notin {1, 2} THEN fail("ValueError")
    ELSE [result |-> "ok", opens |-> 1, newline |-> p.newline,
          com |-> [baudrate |-> p.baudrate,
                   bytesize |-> p.charlength,
                   parity |-> CASE par = "even" -> "E" [] par = "odd" -> "O" [] OTHER -> "N",
                   stopbits |-> IF p.stopbits = 1 THEN "1" ELSE "2",
                   timeout |-> Seconds(p.timeout)]]
\* Serial.__init__: the checks in source order, then serial_for_url (opens tells
\* whether the device can be opened). opens counts the calls of serial_for_url.
\* The stopbits property of the device is an integer, so 1.5 is not among its values.
CoreInit(p, opens) ==
    LET fail(e) == [result |-> e, opens |-> 0, newline |-> 0, com |-> <<>>]
        par == Lower(p.parity)
    IN
    IF ~AsciiOk(p.newline) THEN fail("UnicodeEncodeError")
    ELSE IF p.charlength \notin {5, 6, 7, 8} THEN fail("ValueError")
    ELSE IF par \notin {"none", "empty", "even", "odd"} THEN fail("ValueError")
    ELSE IF p.stopbits \notin {1, 2} THEN fail("ValueError")
    ELSE IF ~opens THEN [fail("SerialException") EXCEPT !.opens = 1]
    ELSE [result |-> "ok", opens |-> 1, newline |-> p.newline,
          com |-> [baudrate |-> p.baudrate,
                   bytesize |-> p.charlength,
                   parity |-> CASE par = "even" -> "E" [] par = "odd" -> "O" [] OTHER -> "N",
                   stopbits |-> IF p.stopbits = 1 THEN "1" ELSE "2",
                   timeout |-> Seconds(p.timeout)]]

\* the setters of the core object on st = [com, newline]; err is "ok" or the
\* exception raised. The enum constructors Parity(value), Charlength(value) and
\* Stopbits(value) of the callers raise ValueError before the setter runs.
SetNewline(st, value) ==
    IF AsciiOk(value) THEN [err |-> "ok", st |-> [st EXCEPT !.newline = value]]
    ELSE [err |-> "UnicodeEncodeError", st |-> st]

SetTimeout(st, value) ==
    [err |-> "ok", st |-> [st EXCEPT !.com.timeout = Seconds(value)]]

\* variant of SetParity: a value outside the enumeration resets the parity
SetParityResetsOnInvalid(st, value) ==
    CASE value = 0 -> [err |-> "ok", st |-> [st EXCEPT !.com.parity = "N"]]
      [] value = 3 -> [err |-> "ok", st |-> [st EXCEPT !.com.parity = "E"]]
      [] value = 1 -> [err |-> "ok", st |-> [st EXCEPT !.com.parity = "O"]]
      [] OTHER -> [err |-> "ValueError", st |-> [st EXCEPT !.com.parity = "N"]]
SetParity(st, value) ==
    CASE value = 0 -> [err |-> "ok", st |-> [st EXCEPT !.com.parity = "N"]]
      [] value = 3 -> [err |-> "ok", st |-> [st EXCEPT !.com.parity = "E"]]
      [] value = 1 -> [err |-> "ok", st |-> [st EXCEPT !.com.parity = "O"]]
      [] OTHER -> [err |-> "ValueError", st |-> st]

\* variant of SetStopbits: 1 selects two stop bits and 2 selects 1.5
SetStopbitsSwapped(st, value) ==
    CASE value = 0 -> [err |-> "ok", st |-> [st EXCEPT !.com.stopbits = "1"]]
      [] value = 1 -> [err |-> "ok", st |-> [st EXCEPT !.com.stopbits = "2"]]
      [] value = 2 -> [err |-> "ok", st |-> [st EXCEPT !.com.stopbits = "1.5"]]
      [] OTHER -> [err |-> "ValueError", st |-> st]
SetStopbits(st, value) ==
    CASE value = 0 -> [err |-> "ok", st |-> [st EXCEPT !.com.stopbits = "1"]]
      [] value = 2 -> [err |-> "ok", st |-> [st EXCEPT !.com.stopbits = "2"]]
      [] value = 1 -> [err |-> "ok", st |-> [st EXCEPT !.com.stopbits = "1.5"]]
      [] OTHER -> [err |-> "ValueError", st |-> st]

SetCharlength(st, value) ==
    CASE value = 3 -> [err |-> "ok", st |-> [st EXCEPT !.com.bytesize = 5]]
      [] value = 2 -> [err |-> "ok", st |-> [st EXCEPT !.com.bytesize = 6]]
      [] value = 1 -> [err |-> "ok", st |-> [st EXCEPT !.com.bytesize = 7]]
      [] value = 0 -> [err |-> "ok", st |-> [st EXCEPT !.com.bytesize = 8]]
      [] OTHER -> [err |-> "ValueError", st |-> st]

\* variant of SetBaudrate: the timeout is set back to no timeout as well
SetBaudrateResetsTimeout(st, value) ==
    [err |-> "ok", st |-> [st EXCEPT !.com.baudrate = value, !.com.timeout = Seconds(0)]]
SetBaudrate(st, value) ==
    [err |-> "ok", st |-> [st EXCEPT !.com.baudrate = value]]

\* variant of SetPair: a type that is no Parameter raises
SetPairRejectsUnknown(st, pair) ==
    CASE pair[1] = NewlineTag -> SetNewline(st, pair[2])
      [] pair[1] = BaudrateTag -> SetBaudrate(st, pair[2])
      [] pair[1] = CharlengthTag -> SetCharlength(st, pair[2])
      [] pair[1] = ParityTag -> SetParity(st, pair[2])
      [] pair[1] = StopbitsTag -> SetStopbits(st, pair[2])
      [] pair[1] = TimeoutTag -> SetTimeout(st, pair[2])
      [] OTHER -> [err |-> "ValueError", st |-> st]
\* one iteration of the loop of Serial.set_parameter; a type that is no
\* Parameter matches none of the tests
SetPair(st, pair) ==
    CASE pair[1] = NewlineTag -> SetNewline(st, pair[2])
      [] pair[1] = BaudrateTag -> SetBaudrate(st, pair[2])
      [] pair[1] = CharlengthTag -> SetCharlength(st, pair[2])
      [] pair[1] = ParityTag -> SetParity(st, pair[2])
      [] pair[1] = StopbitsTag -> SetStopbits(st, pair[2])
      [] pair[1] = TimeoutTag -> SetTimeout(st, pair[2])
      [] OTHER -> [err |-> "ok", st |-> st]

\* Serial.set_parameter: the loop over the pairs; the first exception ends it.
\* applied counts the iterations completed.
RECURSIVE SetParameter(_, _)
RECURSIVE SetParameterContinues(_, _)
\* variant of SetParameter: the loop goes on after a pair that raised
SetParameterContinues(st, pairs) ==
    IF pairs = <<>> THEN [err |-> "ok", st |-> st, applied |-> 0]
    ELSE LET r == SetPair(st, Head(pairs))
             rest == SetParameterContinues(r.st, Tail(pairs))
         IN IF r.err # "ok" THEN [rest EXCEPT !.err = r.err, !.applied = 0]
            ELSE [rest EXCEPT !.applied = @ + 1]
SetParameter(st, pairs) ==
    IF pairs = <<>> THEN [err |-> "ok", st |-> st, applied |-> 0]
    ELSE LET r == SetPair(st, Head(pairs)) IN
         IF r.err # "ok" THEN [err |-> r.err, st |-> r.st, applied |-> 0]
         ELSE [SetParameter(r.st, Tail(pairs)) EXCEPT !.applied = @ + 1]

\* DevSerSetParameter: [(params[i], params[i+1]) for i in range(0, len(params), 2)]
Pairs(params) == [k \in 1..(Len(params) \div 2) |-> <<params[2 * k - 1], params[2 * k]>>]

\* ------------------------------------------------------------ state
NoCall ==
    [op |-> "none", state |-> "done", arg |-> 0, result |-> "none", ret |-> <<>>,
     preBuf |-> <<>>, drained |-> <<>>, nretry |-> 0, i |-> 0, lastEmpty |-> FALSE,
     calls |-> 0, connects |-> 0, transient |-> FALSE,
     opens |-> 0, batch |-> <<>>, applied |-> 0, ops |-> <<>>, data |-> <<>>]

\* threads that call Serial.read on the one core object: where each is in the
\* method, its locals (buff, r, remaining) and what its last call returned;
\* raced: two calls have been in flight at once; twice: ids returned two times;
\* dropped: ids of the separators that Line calls removed
Threads == {1, 2}
IdleReader ==
    [pc |-> "idle", arg |-> 0, buff |-> <<>>, r |-> <<>>, sep |-> <<>>, remaining |-> <<>>, ret |-> <<>>]
NoReaders == [th |-> [t \in Threads |-> IdleReader], raced |-> FALSE, twice |-> {}, dropped |-> {}]

Init ==
    /\ read_buffer = <<>>
    /\ newline = NewlineProperty
    /\ connected = TRUE
    /\ inq = <<>>
    /\ outq = <<>>
    /\ comOk = TRUE
    /\ nArrived = 0
    /\ call = NoCall
    /\ delivered = {}
    /\ consumed = {}
    /\ readers = NoReaders
    /\ discarded = {}
    /\ props = DefaultProps
    /\ com = CoreInit(DefaultProps, TRUE).com

Idle == call.state = "done"

\* A command starts: the record of the call, with the state it found.
Begin(op, arg) ==
    [NoCall EXCEPT !.op = op, !.arg = arg]

\* variant of Connect: the new core object takes over the ReadBuffer of the old one
ConnectKeepsBuffer(c) ==
    \E opens \in BOOLEAN :
        LET r == CoreInit(props, opens)
            c1 == [c EXCEPT !.state = "done", !.connects = @ + 1, !.opens = @ + r.opens]
        IN
        /\ connected' = (r.result = "ok")
        /\ IF r.result = "ok"
           THEN /\ read_buffer' = read_buffer
                /\ discarded' = discarded \cup IdSet(read_buffer)
                /\ newline' = r.newline
                /\ com' = r.com
                /\ inq' = <<>>
                /\ outq' = <<>>
                /\ comOk' = TRUE
                /\ call' = [c1 EXCEPT !.result = "none"]
           ELSE /\ call' = [c1 EXCEPT !.result =
                               IF r.result = "SerialException" THEN "CommunicationFailed" ELSE r.result]
                /\ UNCHANGED <<read_buffer, newline, com, inq, outq, comOk, discarded>>
        /\ UNCHANGED <<nArrived, delivered, consumed, props, readers>>
\* Device.connect: a new core Serial object on a new channel when the properties
\* are valid and serial_for_url opens the device (opens); CommunicationFailed when
\* serial_for_url raises SerialException; the error of the constructor otherwise.
Connect(c) ==
    \E opens \in BOOLEAN :
        LET r == CoreInit(props, opens)
            c1 == [c EXCEPT !.state = "done", !.connects = @ + 1, !.opens = @ + r.opens]
        IN
        /\ connected' = (r.result = "ok")
        /\ IF r.result = "ok"
           THEN /\ read_buffer' = <<>>
                /\ discarded' = discarded \cup IdSet(read_buffer)
                /\ newline' = r.newline
                /\ com' = r.com
                /\ inq' = <<>>
                /\ outq' = <<>>
                /\ comOk' = TRUE
                /\ call' = [c1 EXCEPT !.result = "none"]
           ELSE /\ call' = [c1 EXCEPT !.result =
                               IF r.result = "SerialException" THEN "CommunicationFailed" ELSE r.result]
                /\ UNCHANGED <<read_buffer, newline, com, inq, outq, comOk, discarded>>
        /\ UNCHANGED <<nArrived, delivered, consumed, props, readers>>

\* safe_reconnection, the except branches: func raised SerialException or BrokenPipeError.
Transient(c) == Connect([c EXCEPT !.transient = TRUE])

\* ------------------------------------------------------- read commands
\* DevSerReadChar / DevSerReadString: safe_reconnection(self.serial.read, argin),
\* up to the return of Serial.read or the entry of its Retry loop.
DevSerReadChar(argin) ==
    /\ Idle
    /\ LET c == Begin("read", argin) IN
       IF ~connected THEN Connect(c)
       ELSE IF ~comOk THEN Transient([c EXCEPT !.calls = 1])
       ELSE LET buf1 == ExtendBuffer(read_buffer, inq)
                d == Dispatch(buf1, newline, argin)
                c1 == [c EXCEPT !.calls = 1, !.preBuf = read_buffer, !.drained = inq,
                                !.nretry = d.nretry]
            IN /\ inq' = <<>>
               /\ read_buffer' = d.buf
               /\ CASE d.kind = "return" ->
                         /\ call' = [c1 EXCEPT !.result = "ok", !.ret = d.ret]
                         /\ delivered' = delivered \cup IdSet(d.ret)
                         /\ consumed' = IF d.consumes THEN consumed \cup IdSet(d.ret) ELSE consumed
                    [] d.kind = "loop" ->
                         /\ call' = [c1 EXCEPT !.state = "running"]
                         /\ UNCHANGED <<delivered, consumed>>
                    [] OTHER ->
                         /\ call' = [c1 EXCEPT !.result = "ValueError"]
                         /\ UNCHANGED <<delivered, consumed>>
               /\ UNCHANGED <<newline, connected, outq, comOk, nArrived, com, props, readers, discarded>>

\* variant of RetryDrain: an empty drain does not leave the loop
RetryDrainIgnoresEmpty ==
    /\ call.state = "running"
    /\ IF ~comOk THEN Transient(call)
       ELSE LET buff == inq
                buf1 == ExtendBuffer(read_buffer, buff)
                r == RetryReturn(buf1)
                c1 == [call EXCEPT !.i = @ + 1, !.drained = @ \o buff, !.lastEmpty = (buff = <<>>)]
            IN /\ inq' = <<>>
               /\ IF call.i + 1 >= call.nretry
                  THEN /\ call' = [c1 EXCEPT !.state = "done", !.result = "ok", !.ret = r.ret]
                       /\ read_buffer' = r.buf
                       /\ delivered' = delivered \cup IdSet(r.ret)
                  ELSE /\ call' = c1
                       /\ read_buffer' = buf1
                       /\ delivered' = delivered
               /\ consumed' = consumed
               /\ UNCHANGED <<newline, connected, outq, comOk, nArrived, com, props, readers, discarded>>
\* One iteration of the Retry loop of Serial.read.
RetryDrain ==
    /\ call.state = "running"
    /\ IF ~comOk THEN Transient(call)
       ELSE LET buff == inq
                buf1 == ExtendBuffer(read_buffer, buff)
                r == RetryReturn(buf1)
                c1 == [call EXCEPT !.i = @ + 1, !.drained = @ \o buff, !.lastEmpty = (buff = <<>>)]
            IN /\ inq' = <<>>
               /\ IF buff = <<>> \/ call.i + 1 >= call.nretry
                  THEN /\ call' = [c1 EXCEPT !.state = "done", !.result = "ok", !.ret = r.ret]
                       /\ read_buffer' = r.buf
                       /\ delivered' = delivered \cup IdSet(r.ret)
                  ELSE /\ call' = c1
                       /\ read_buffer' = buf1
                       /\ delivered' = delivered
               /\ consumed' = consumed
               /\ UNCHANGED <<newline, connected, outq, comOk, nArrived, com, props, readers, discarded>>

\* DevSerReadNBinData: the argument expression self.serial.read_nchars is
\* evaluated before safe_reconnection is entered; the core Serial class has no
\* attribute read_nchars, so the command raises AttributeError and does nothing
DevSerReadNBinData(n_chars) ==
    /\ Idle
    /\ call' = [Begin("read_nchars", n_chars) EXCEPT !.result = "AttributeError"]
    /\ UNCHANGED <<read_buffer, newline, connected, inq, outq, comOk, nArrived, delivered, consumed, com, props, readers, discarded>>

\* ------------------------------------------------- write and clear
\* variant of DevSerWriteChar: the function is tried without the test of
\* self.connected
DevSerWriteCharTriesFirst(chars) ==
    /\ Idle
    /\ LET c == Begin("write", Len(chars)) IN
       IF ~connected \/ ~comOk THEN Transient([c EXCEPT !.calls = 1])
       ELSE /\ Len(outq) + Len(chars) <= MaxOut
            /\ outq' = outq \o chars
            /\ call' = [c EXCEPT !.calls = 1, !.result = "ok"]
            /\ UNCHANGED <<read_buffer, newline, connected, inq, comOk, nArrived, delivered, consumed, com, props, readers, discarded>>
\* DevSerWriteChar: safe_reconnection(self.serial.write_chars, chararray)
DevSerWriteChar(chars) ==
    /\ Idle
    /\ LET c == Begin("write", Len(chars)) IN
       IF ~connected THEN Connect(c)
       ELSE IF ~comOk THEN Transient([c EXCEPT !.calls = 1])
       ELSE /\ Len(outq) + Len(chars) <= MaxOut
            /\ outq' = outq \o chars
            /\ call' = [c EXCEPT !.calls = 1, !.result = "ok"]
            /\ UNCHANGED <<read_buffer, newline, connected, inq, comOk, nArrived, delivered, consumed, com, props, readers, discarded>>

\* serial.Serial.reset_input_buffer and serial.Serial.flush on ch = [inq, outq, ops]:
\* flush returns when the output is written; the bytes of `during` arrive while
\* it waits
ResetInputBuffer(ch) == [ch EXCEPT !.inq = <<>>, !.ops = Append(@, "reset_input_buffer")]
Flush(ch, during) == [ch EXCEPT !.inq = @ \o during, !.outq = <<>>, !.ops = Append(@, "flush")]

\* variant of ClearBuff: option 2 discards the input before it flushes
ClearBuffResetsFirst(option, ch, during) ==
    CASE option = 0 -> [err |-> FALSE, ch |-> ResetInputBuffer(ch)]
      [] option = 1 -> [err |-> FALSE, ch |-> Flush(ch, during)]
      [] option = 2 -> [err |-> FALSE, ch |-> Flush(ResetInputBuffer(ch), during)]
      [] OTHER -> [err |-> TRUE, ch |-> ch]
\* Serial.clear_buff: the channel after the call, or an error
ClearBuff(option, ch, during) ==
    CASE option = 0 -> [err |-> FALSE, ch |-> ResetInputBuffer(ch)]
      [] option = 1 -> [err |-> FALSE, ch |-> Flush(ch, during)]
      [] option = 2 -> [err |-> FALSE, ch |-> ResetInputBuffer(Flush(ch, during))]
      [] OTHER -> [err |-> TRUE, ch |-> ch]

\* what can arrive while a flush waits for pending output
FlushArrivals(what) ==
    IF what \in {1, 2} /\ outq # <<>> /\ nArrived < MaxBytes
    THEN {<<>>} \cup {<<[id |-> nArrived + 1, v |-> v]>> : v \in ArrivalBytes}
    ELSE {<<>>}

\* variant of DevSerFlush: the input discard also empties the ReadBuffer
DevSerFlushDropsBuffer(what) ==
    /\ Idle
    /\ LET c == Begin("clear", what) IN
       IF ~connected THEN Connect(c)
       ELSE IF ~comOk /\ what \in 0..2 THEN Transient([c EXCEPT !.calls = 1])
       ELSE \E during \in FlushArrivals(what) :
            LET r == ClearBuff(what, [inq |-> inq, outq |-> outq, ops |-> <<>>], during) IN
            /\ inq' = r.ch.inq
            /\ outq' = r.ch.outq
            /\ nArrived' = nArrived + Len(during)
            /\ read_buffer' = IF what \in {0, 2} THEN <<>> ELSE read_buffer
            /\ call' = [c EXCEPT !.calls = 1, !.result = IF r.err THEN "ValueError" ELSE "ok",
                                 !.ops = r.ch.ops, !.data = during]
            /\ UNCHANGED <<newline, connected, comOk, delivered, consumed, com, props, readers, discarded>>
\* DevSerFlush: safe_reconnection(self.serial.clear_buff, what)
DevSerFlush(what) ==
    /\ Idle
    /\ LET c == Begin("clear", what) IN
       IF ~connected THEN Connect(c)
       ELSE IF ~comOk /\ what \in 0..2 THEN Transient([c EXCEPT !.calls = 1])
       ELSE \E during \in FlushArrivals(what) :
            LET r == ClearBuff(what, [inq |-> inq, outq |-> outq, ops |-> <<>>], during) IN
            /\ inq' = r.ch.inq
            /\ outq' = r.ch.outq
            /\ nArrived' = nArrived + Len(during)
            /\ call' = [c EXCEPT !.calls = 1, !.result = IF r.err THEN "ValueError" ELSE "ok",
                                 !.ops = r.ch.ops, !.data = during]
            /\ UNCHANGED <<read_buffer, newline, connected, comOk, delivered, consumed, com, props, readers, discarded>>

\* ---------------------------------------------------------- setters
\* DevSerSetNewline -> Serial.set_newline
DevSerSetNewline(value) ==
    /\ Idle
    /\ LET c == Begin("set_newline", value) IN
       IF AsciiOk(value)
       THEN /\ newline' = value
            /\ call' = [c EXCEPT !.calls = 1, !.result = "ok"]
       ELSE /\ newline' = newline
            /\ call' = [c EXCEPT !.calls = 1, !.result = "UnicodeEncodeError"]
    /\ UNCHANGED <<read_buffer, connected, inq, outq, comOk, nArrived, delivered, consumed, com, props, readers, discarded>>

\* a setter command on the open channel: r is what the setter of the core did
SetterCommand(c, r) ==
    /\ Idle
    /\ comOk
    /\ com' = r.st.com
    /\ newline' = r.st.newline
    /\ call' = [c EXCEPT !.calls = 1, !.result = r.err]
    /\ UNCHANGED <<read_buffer, connected, inq, outq, comOk, nArrived, delivered, consumed, props, readers, discarded>>

Settings == [com |-> com, newline |-> newline]

DevSerSetTimeout(value) == SetterCommand(Begin("set_timeout", value), SetTimeout(Settings, value))
DevSerSetParity(value) == SetterCommand(Begin("set_parity", value), SetParity(Settings, value))
DevSerSetCharLength(value) == SetterCommand(Begin("set_charlength", value), SetCharlength(Settings, value))
DevSerSetStopbit(value) == SetterCommand(Begin("set_stopbits", value), SetStopbits(Settings, value))
DevSerSetBaudrate(value) == SetterCommand(Begin("set_baudrate", value), SetBaudrate(Settings, value))

\* DevSerSetParameter: an odd number of values raises IndexError while the pairs
\* are built, before set_parameter is called
DevSerSetParameter(params) ==
    LET c == [Begin("set_parameter", 0) EXCEPT !.batch = params] IN
    IF Len(params) % 2 = 1
    THEN SetterCommand(c, [err |-> "IndexError", st |-> Settings])
    ELSE LET r == SetParameter(Settings, Pairs(params)) IN
         SetterCommand([c EXCEPT !.applied = r.applied], r)

\* ------------------------------------------------------ environment
\* the peer sends one byte
Arrive(v) ==
    /\ comOk
    /\ nArrived < MaxBytes
    /\ nArrived' = nArrived + 1
    /\ inq' = Append(inq, [id |-> nArrived + 1, v |-> v])
    /\ UNCHANGED <<read_buffer, newline, connected, outq, comOk, call, delivered, consumed, com, props, readers, discarded>>

\* the channel transmits the byte at the head of the output queue
Transmit ==
    /\ comOk
    /\ outq # <<>>
    /\ outq' = Tail(outq)
    /\ UNCHANGED <<read_buffer, newline, connected, inq, comOk, nArrived, call, delivered, consumed, com, props, readers, discarded>>

\* the serial device disappears (unplugged, peer closed): I/O on the open handle
\* raises from now on and what the channel held is lost
PortDown ==
    /\ comOk
    /\ comOk' = FALSE
    /\ inq' = <<>>
    /\ outq' = <<>>
    /\ UNCHANGED <<read_buffer, newline, connected, nArrived, call, delivered, consumed, com, props, readers, discarded>>

Next ==
    \/ \E argin \in ReadArgs : DevSerReadChar(argin)
    \/ RetryDrain
    \/ \E chars \in WriteInputs : DevSerWriteChar(chars)
    \/ \E what \in ClearOptions : DevSerFlush(what)
    \/ \E value \in NewlineInputs : DevSerSetNewline(value)
    \/ \E v \in ArrivalBytes : Arrive(v)
    \/ Transmit
    \/ PortDown

Spec == Init /\ [][Next]_vars

\* ------------------------------------------------- reads that end
\* the reads alone, with data arriving; the Retry loop is sequential code whose
\* drains (read_all) do not block, so an iteration that can run does run
TermNext ==
    \/ \E argin \in ReadArgs : DevSerReadChar(argin)
    \/ RetryDrain
    \/ \E v \in ArrivalBytes : Arrive(v)
    \/ PortDown

TermSpec == Init /\ [][TermNext]_vars /\ WF_vars(RetryDrain)

\* ------------------------------------------------- counted binary reads
NBinNext ==
    \/ \E n_chars \in 0..MaxArg : DevSerReadNBinData(n_chars)
    \/ \E argin \in {RetryTag, 256 + NCharTag} : DevSerReadChar(argin)
    \/ \E v \in ArrivalBytes : Arrive(v)
    \/ PortDown

NBinSpec == Init /\ [][NBinNext]_vars

\* ------------------------------------- reads the caller does not serialize
\* Serial.read statement by statement, run by the threads of Threads on the same
\* object; a thread switch can fall between any two statements
RaceReads == {RawTag, 256 + NCharTag, LineTag}

Reader(t) == readers.th[t]
SetReader(t, rec) == [readers EXCEPT !.th[t] = rec]

\* the call is entered
RaceBegin(t, argin) ==
    /\ Reader(t).pc = "idle"
    /\ readers' = [SetReader(t, [IdleReader EXCEPT !.pc = "read_all", !.arg = argin])
                      EXCEPT !.raced = @ \/ \E u \in Threads \ {t} : Reader(u).pc # "idle"]
    /\ UNCHANGED <<read_buffer, newline, connected, inq, outq, comOk, nArrived, call, delivered, consumed, com, props, discarded>>

\* self._com.read_all()
RaceReadAll(t) ==
    /\ Reader(t).pc = "read_all"
    /\ inq' = <<>>
    /\ readers' = SetReader(t, [Reader(t) EXCEPT !.pc = "extend", !.buff = inq])
    /\ UNCHANGED <<read_buffer, newline, connected, outq, comOk, nArrived, call, delivered, consumed, com, props, discarded>>

\* self.read_buffer.extend(...), then the test of the read type
RaceExtend(t) ==
    /\ Reader(t).pc = "extend"
    /\ read_buffer' = ExtendBuffer(read_buffer, Reader(t).buff)
    /\ readers' = SetReader(t, [Reader(t) EXCEPT !.buff = <<>>,
                        !.pc = IF ReadType(Reader(t).arg) = RawTag THEN "nul" ELSE "slice"])
    /\ UNCHANGED <<newline, connected, inq, outq, comOk, nArrived, call, delivered, consumed, com, props, discarded>>

\* Raw: self.read_buffer.extend(b'\0')
RaceNul(t) ==
    /\ Reader(t).pc = "nul"
    /\ read_buffer' = Append(read_buffer, [id |-> 0, v |-> NUL])
    /\ readers' = SetReader(t, [Reader(t) EXCEPT !.pc = "slice"])
    /\ UNCHANGED <<newline, connected, inq, outq, comOk, nArrived, call, delivered, consumed, com, props, discarded>>

\* r = bytes(self.read_buffer) / r = self.read_buffer[:nchar] /
\* line, sep, remaining = self.read_buffer.partition(self._newline)
RaceSlice(t) ==
    /\ Reader(t).pc = "slice"
    /\ LET tag == ReadType(Reader(t).arg)
           p == Partition(read_buffer, newline)
       IN readers' = SetReader(t, [Reader(t) EXCEPT !.pc = "assign",
              !.r = CASE tag = RawTag -> read_buffer
                      [] tag = NCharTag -> Take(read_buffer, ReadArg(Reader(t).arg))
                      [] OTHER -> p.before,
              !.sep = IF tag = LineTag THEN p.sep ELSE <<>>,
              !.remaining = IF tag = LineTag THEN p.after ELSE <<>>])
    /\ UNCHANGED <<read_buffer, newline, connected, inq, outq, comOk, nArrived, call, delivered, consumed, com, props, discarded>>

\* self.read_buffer = bytearray() / self.read_buffer[nchar:] / remaining, and
\* the return of r
RaceAssign(t) ==
    /\ Reader(t).pc = "assign"
    /\ LET tag == ReadType(Reader(t).arg) IN
       read_buffer' = CASE tag = RawTag -> <<>>
                        [] tag = NCharTag -> Drop(read_buffer, ReadArg(Reader(t).arg))
                        [] OTHER -> Reader(t).remaining
    /\ delivered' = delivered \cup IdSet(Reader(t).r)
    /\ readers' = [SetReader(t, [IdleReader EXCEPT !.ret = Reader(t).r])
                      EXCEPT !.twice = @ \cup (IdSet(Reader(t).r) \cap delivered),
                             !.dropped = @ \cup IdSet(Reader(t).sep)]
    /\ UNCHANGED <<newline, connected, inq, outq, comOk, nArrived, call, consumed, com, props, discarded>>

RaceNext ==
    \/ \E t \in Threads : \E argin \in RaceReads : RaceBegin(t, argin)
    \/ \E t \in Threads : RaceReadAll(t)
    \/ \E t \in Threads : RaceExtend(t)
    \/ \E t \in Threads : RaceNul(t)
    \/ \E t \in Threads : RaceSlice(t)
    \/ \E t \in Threads : RaceAssign(t)
    \/ \E v \in ArrivalBytes : Arrive(v)

RaceSpec == Init /\ [][RaceNext]_vars

\* ------------------------------------------------------- WriteRead
\* the request strings (code points; 233 is not ASCII), the read modes (4 is no
\* mode) and the bytes of the answers: 200 136 is one character in UTF-8, 200
\* alone or 136 alone is ill-formed
Messages == {<<65>>, <<233>>}
WriteReadModes == {RawTag, 256 + NCharTag, LineTag, RetryTag, 4}
AnswerBytes == {65, 200, 136}

\* WriteRead, first half: safe_reconnection(self.serial.write_string, message) on
\* the connected device; string.encode('ascii') raises for a non-ASCII message
WriteReadWrite(mode, message) ==
    /\ Idle
    /\ connected
    /\ comOk
    /\ LET c == [Begin("write_read", mode) EXCEPT !.calls = 1, !.data = message] IN
       IF \A k \in 1..Len(message) : AsciiOk(message[k])
       THEN /\ Len(outq) + Len(message) <= MaxOut
            /\ outq' = outq \o message
            /\ call' = [c EXCEPT !.state = "wrote"]
       ELSE /\ outq' = outq
            /\ call' = [c EXCEPT !.result = "UnicodeEncodeError"]
    /\ UNCHANGED <<read_buffer, newline, connected, inq, comOk, nArrived, delivered, consumed, com, props, readers, discarded>>

\* WriteRead, second half: response = safe_reconnection(self.serial.read,
\* read_mode) and return response.decode("UTF-8")
WriteReadRead ==
    /\ call.op = "write_read"
    /\ call.state = "wrote"
    /\ connected
    /\ comOk
    /\ LET buf1 == ExtendBuffer(read_buffer, inq)
           d == Dispatch(buf1, newline, call.arg)
           u == Utf8Decode(Values(d.ret))
           c1 == [call EXCEPT !.state = "done", !.calls = 2, !.preBuf = read_buffer, !.drained = inq]
       IN /\ d.kind # "loop"
          /\ inq' = <<>>
          /\ read_buffer' = d.buf
          /\ call' = IF d.kind = "error" THEN [c1 EXCEPT !.result = "ValueError"]
                     ELSE IF u.ok THEN [c1 EXCEPT !.result = "ok", !.ret = u.chars]
                     ELSE [c1 EXCEPT !.result = "UnicodeDecodeError"]
          /\ delivered' = IF d.kind = "return" /\ u.ok THEN delivered \cup IdSet(d.ret) ELSE delivered
          /\ consumed' = IF d.kind = "return" /\ d.consumes THEN consumed \cup IdSet(d.ret) ELSE consumed
    /\ UNCHANGED <<newline, connected, outq, comOk, nArrived, com, props, readers, discarded>>

\* the peer answers with one byte
Answer(v) ==
    /\ comOk
    /\ nArrived < MaxBytes
    /\ nArrived' = nArrived + 1
    /\ inq' = Append(inq, [id |-> nArrived + 1, v |-> v])
    /\ UNCHANGED <<read_buffer, newline, connected, outq, comOk, call, delivered, consumed, com, props, readers, discarded>>

WriteReadNext ==
    \/ \E mode \in WriteReadModes : \E message \in Messages : WriteReadWrite(mode, message)
    \/ WriteReadRead
    \/ \E v \in AnswerBytes : Answer(v)
    \/ Transmit

WriteReadSpec == Init /\ [][WriteReadNext]_vars

\* ------------------------------------------------- reconnections
ReconnectNext ==
    \/ \E argin \in {RawTag, 256 + NCharTag, RetryTag} : DevSerReadChar(argin)
    \/ \E chars \in WriteInputs : DevSerWriteChar(chars)
    \/ \E what \in {0, 2} : DevSerFlush(what)
    \/ \E v \in ArrivalBytes : Arrive(v)
    \/ PortDown

ReconnectSpec == Init /\ [][ReconnectNext]_vars

\* ------------------------------------------------ opening the device
\* values of the charlength, parity and stopbits properties; 9, "bad" and 3 are
\* outside the accepted sets
CharlengthProps == {8, 7, 9}
ParityProps == {"none", "Even", "odd", "bad"}
StopbitsProps == {1, 2, 3}

\* the device before init_device: properties read, no core object, no channel
OpenInit ==
    /\ props \in {[DefaultProps EXCEPT !.charlength = cl, !.parity = par, !.stopbits = sb] :
                     cl \in CharlengthProps, par \in ParityProps, sb \in StopbitsProps}
    /\ connected = FALSE
    /\ comOk = FALSE
    /\ com = <<>>
    /\ newline = 0
    /\ read_buffer = <<>>
    /\ inq = <<>>
    /\ outq = <<>>
    /\ nArrived = 0
    /\ call = NoCall
    /\ delivered = {}
    /\ consumed = {}
    /\ readers = NoReaders
    /\ discarded = {}

\* init_device, also run by the Init command: connect()
InitDevice ==
    /\ Idle
    /\ Connect(Begin("init", 0))

OpenNext ==
    \/ InitDevice
    \/ \E v \in ArrivalBytes : Arrive(v)
    \/ PortDown

OpenSpec == OpenInit /\ [][OpenNext]_vars

\* ------------------------------------------------ configuration only
\* the flat argument of DevSerSetParameter: up to MaxBatch pairs, or a lone tag
RECURSIVE Batches(_)
Batches(n) ==
    IF n = 0 THEN {<<>>}
    ELSE Batches(n - 1) \cup {b \o p : b \in Batches(n - 1), p \in PairInputs}
BatchInputs == Batches(MaxBatch) \cup {<<ParityTag>>}
\* one pair for every value of the three enumerated settings
SinglePairInputs ==
    {<<ParityTag, v>> : v \in ParityInputs} \cup {<<CharlengthTag, v>> : v \in CharlengthInputs}
        \cup {<<StopbitsTag, v>> : v \in StopbitsInputs}

ConfigNext ==
    \/ \E value \in NewlineInputs : DevSerSetNewline(value)
    \/ \E value \in TimeoutInputs : DevSerSetTimeout(value)
    \/ \E value \in ParityInputs : DevSerSetParity(value)
    \/ \E value \in CharlengthInputs : DevSerSetCharLength(value)
    \/ \E value \in StopbitsInputs : DevSerSetStopbit(value)
    \/ \E value \in BaudrateInputs : DevSerSetBaudrate(value)
    \/ \E params \in SinglePairInputs : DevSerSetParameter(params)

ConfigSpec == Init /\ [][ConfigNext]_vars

\* ---------------------------------- setters on a channel that holds data
SetterNext ==
    \/ \E value \in {65, 200} : DevSerSetNewline(value)
    \/ \E value \in {200} : DevSerSetTimeout(value)
    \/ \E value \in {3, 99} : DevSerSetParity(value)
    \/ \E value \in {1} : DevSerSetCharLength(value)
    \/ \E value \in {2} : DevSerSetStopbit(value)
    \/ \E value \in {115200} : DevSerSetBaudrate(value)
    \/ \E chars \in WriteInputs : DevSerWriteChar(chars)
    \/ \E v \in ArrivalBytes : Arrive(v)

SetterSpec == Init /\ [][SetterNext]_vars

\* ------------------------------------------------------- batches only
BatchNext == \E params \in BatchInputs : DevSerSetParameter(params)

BatchSpec == Init /\ [][BatchNext]_vars

\* ------------------------------------- every command, few arguments each
\* reads that return at once: Raw, NChar(1), Line, and Retry that only drains
FrameReads == {RawTag, 256 + NCharTag, LineTag, RetryTag}

FrameNext ==
    \/ \E argin \in FrameReads : DevSerReadChar(argin)
    \/ \E chars \in WriteInputs : DevSerWriteChar(chars)
    \/ \E what \in ClearOptions : DevSerFlush(what)
    \/ \E value \in {NewlineProperty, 200} : DevSerSetNewline(value)
    \/ \E value \in {100} : DevSerSetTimeout(value)
    \/ \E value \in {3, 99} : DevSerSetParity(value)
    \/ \E value \in {0, 4} : DevSerSetCharLength(value)
    \/ \E value \in {0, 3} : DevSerSetStopbit(value)
    \/ \E value \in {9600} : DevSerSetBaudrate(value)
    \/ \E params \in {<<BaudrateTag, 115200>>, <<ParityTag, 99>>} : DevSerSetParameter(params)
    \/ \E v \in ArrivalBytes : Arrive(v)
    \/ Transmit
    \/ PortDown

FrameSpec == Init /\ [][FrameNext]_vars

\* ------------------------------------------------- loopback channel
\* the channel is a loopback (serial_for_url with a loop:// line): what
\* write_chars writes is pending input when the write returns
EchoWrites == {<<65>>, <<65, NewlineProperty>>}

DevSerWriteCharLoop(chars) ==
    /\ Idle
    /\ connected
    /\ comOk
    /\ nArrived + Len(chars) <= MaxEcho
    /\ LET echo == [k \in 1..Len(chars) |-> [id |-> nArrived + k, v |-> chars[k]]] IN
       /\ inq' = inq \o echo
       /\ call' = [Begin("write", Len(chars)) EXCEPT !.calls = 1, !.result = "ok",
                       !.preBuf = read_buffer, !.drained = inq, !.data = echo]
    /\ nArrived' = nArrived + Len(chars)
    /\ UNCHANGED <<read_buffer, newline, connected, outq, comOk, delivered, consumed, com, props, readers, discarded>>

EchoNext ==
    \/ \E chars \in EchoWrites : DevSerWriteCharLoop(chars)
    \/ \E argin \in FrameReads : DevSerReadChar(argin)
    \/ \E what \in ClearOptions : DevSerFlush(what)

EchoSpec == Init /\ [][EchoNext]_vars

\* ------------------------------------------- Line reads on a full buffer
\* the bytes 1..n of values f[1..n]
Bytes(f) == [k \in DOMAIN f |-> [id |-> k, v |-> f[k]]]

\* The state reached when n bytes have arrived and a Retry(0) read has drained
\* them into the ReadBuffer, for every content of at most MaxLine bytes.
LineInit ==
    \E n \in 0..MaxLine : \E f \in [1..n -> ArrivalBytes] :
        /\ read_buffer = Bytes(f)
        /\ nArrived = n
        /\ delivered = 1..n
        /\ call = [Begin("read", RetryTag) EXCEPT !.calls = 1, !.result = "ok", !.nretry = -1,
                                                 !.drained = Bytes(f), !.ret = Bytes(f)]
        /\ newline = NewlineProperty
        /\ connected = TRUE
        /\ inq = <<>>
        /\ outq = <<>>
        /\ comOk = TRUE
        /\ consumed = {}
        /\ readers = NoReaders
        /\ discarded = {}
        /\ props = DefaultProps
        /\ com = CoreInit(DefaultProps, TRUE).com

LineNext ==
    \/ DevSerReadChar(LineTag)
    \/ \E value \in NewlineInputs : DevSerSetNewline(value)

LineSpec == LineInit /\ [][LineNext]_vars

\* ------------------------------------------- packed read arguments
\* (arg << 8) | (high << 4) | tag, with bits 4..7 clear, mixed and all set
PackedArgs == {a * 256 + h * 16 + t : a \in 0..MaxArg, h \in {0, 1, 15}, t \in 0..3}

DecodeInit ==
    \E n \in 0..MaxDecode : \E f \in [1..n -> ArrivalBytes] :
        /\ read_buffer = Bytes(f)
        /\ nArrived = n
        /\ delivered = 1..n
        /\ call = [Begin("read", RetryTag) EXCEPT !.calls = 1, !.result = "ok", !.nretry = -1,
                       !.drained = Bytes(f), !.ret = Bytes(f)]
        /\ newline = NewlineProperty
        /\ connected = TRUE
        /\ inq = <<>>
        /\ outq = <<>>
        /\ comOk = TRUE
        /\ consumed = {}
        /\ readers = NoReaders
        /\ discarded = {}
        /\ props = DefaultProps
        /\ com = CoreInit(DefaultProps, TRUE).com

DecodeNext ==
    \/ \E argin \in PackedArgs : DevSerReadChar(argin)
    \/ RetryDrain
    \/ \E v \in ArrivalBytes : Arrive(v)

DecodeSpec == DecodeInit /\ [][DecodeNext]_vars

\* ================================================================ claims
\* the step is the return of a read call
ReadReturned ==
    /\ call'.op = "read" /\ call'.state = "done" /\ call'.result = "ok"
    /\ DevSerReadChar(call'.arg) \/ RetryDrain
ReadDone(tag) == call.op = "read" /\ call.state = "done" /\ call.result = "ok" /\ ReadType(call.arg) = tag
ChannelBytes(s) == SelectSeq(s, LAMBDA b : b.id > 0)
Increasing(ids) == \A i, j \in 1..Len(ids) : i < j => ids[i] < ids[j]
IsPrefix(p, s) == Len(p) <= Len(s) /\ SubSeq(s, 1, Len(p)) = p
IsSuffix(p, s) == Len(p) <= Len(s) /\ SubSeq(s, Len(s) - Len(p) + 1, Len(s)) = p
NulByte == [id |-> 0, v |-> NUL]

C2_ReconnectThenRetryOnce ==
    (/\ call.state = "done"
     /\ call.op \in {"read", "write", "clear"}
     /\ call.transient
     /\ call.result # "CommunicationFailed")
    => (call.connects = 1 /\ call.calls = 2)

\* C3: a read with an unknown mode tag fails and leaves the ReadBuffer and the
\* pending input of the channel as they were.
C3_UnknownModeLeavesStateUntouched ==
    [][(call'.op = "read" /\ call'.result = "ValueError" /\ DevSerReadChar(call'.arg))
          => (read_buffer' = read_buffer /\ inq' = inq)]_vars

\* C4: when a Retry(attempts) read returns, it has made additional drains until
\* `attempts` of them were made or one of them was empty, and the ReadBuffer is
\* the buffer found followed by every drain's bytes in drain order.
C4_RetryMakesAttemptsDrains ==
    ReadDone(RetryTag) =>
        /\ call.i <= ReadArg(call.arg)
        /\ call.i = ReadArg(call.arg) \/ call.lastEmpty
        /\ read_buffer = call.preBuf \o call.drained
        /\ Increasing(Ids(call.drained))

\* C5 (as stated): Retry(0) makes no additional drain and returns exactly the
\* bytes of its initial drain.
C5_RetryZeroReturnsInitialDrain ==
    (ReadDone(RetryTag) /\ ReadArg(call.arg) = 0)
    => (call.i = 0 /\ call.ret = call.drained)

\* C5 (amended): Retry(0) makes no additional drain and returns the ReadBuffer
\* it found followed by the bytes of its initial drain.
C5_RetryZeroReturnsBufferAndDrain ==
    (ReadDone(RetryTag) /\ ReadArg(call.arg) = 0)
    => (call.i = 0 /\ call.ret = call.preBuf \o call.drained)

C5_Witness ==
    /\ ReadDone(RetryTag) /\ ReadArg(call.arg) = 0
    /\ call.preBuf # <<>> /\ call.drained # <<>>

\* C6: right after a Retry read returned v the ReadBuffer equals v: the bytes
\* returned are still buffered for the next read.
C6_RetryLeavesBuffer ==
    ReadDone(RetryTag) => (read_buffer = call.ret /\ call.ret = call.preBuf \o call.drained)

C6_Witness ==
    ReadDone(RetryTag) /\ Len(call.ret) >= 2 /\ call.i >= 1

\* C7: a read on an open channel, whatever its mode, empties the pending input of
\* the channel and works on (old buffer ++ drained bytes): what it returns is a
\* prefix of that sequence, what it leaves buffered is a suffix of it, and no byte
\* of it is lost except the newline a Line read drops.
C7_DrainBeforeDispatch ==
    [][(call'.op = "read" /\ connected /\ comOk /\ DevSerReadChar(call'.arg)) =>
             LET b == read_buffer \o inq IN
             /\ inq' = <<>>
             /\ call'.preBuf = read_buffer /\ call'.drained = inq
             /\ IsPrefix(ChannelBytes(call'.ret), b)
             /\ IsSuffix(read_buffer', b)
             /\ Cardinality(IdSet(b) \ (IdSet(call'.ret) \cup IdSet(read_buffer')))
                  <= (IF ReadType(call'.arg) = LineTag THEN 1 ELSE 0)]_vars

C7_Witness ==
    /\ call.op = "read" /\ call.state = "done" /\ call.result = "ok" /\ call.i = 0
    /\ call.preBuf # <<>> /\ call.drained # <<>>
    /\ Len(call.ret) >= 2

\* C8: a Raw read returns the buffer found followed by the drained bytes and one
\* NUL, and leaves the ReadBuffer empty; the NUL is never kept in the ReadBuffer.
C8_RawReturnsAllPlusNul ==
    /\ ReadDone(RawTag) =>
          /\ call.ret = (call.preBuf \o call.drained) \o <<NulByte>>
          /\ read_buffer = <<>>
    /\ \A k \in 1..Len(read_buffer) : read_buffer[k].id # 0

C8_Witness ==
    ReadDone(RawTag) /\ call.preBuf # <<>> /\ call.drained # <<>>

\* C9: NChar(n) on a buffer of L bytes returns its first min(n, L) bytes, leaves
\* the other max(L - n, 0) bytes buffered in order, and drains only once.
C9_NCharSlices ==
    ReadDone(NCharTag) =>
        LET b == call.preBuf \o call.drained
            n == ReadArg(call.arg)
            L == Len(b)
        IN /\ Len(call.ret) = Min(n, L)
           /\ Len(read_buffer) = Max(L - n, 0)
           /\ call.ret \o read_buffer = b
           /\ call.i = 0

C9_Witness ==
    /\ ReadDone(NCharTag)
    /\ ReadArg(call.arg) = 1
    /\ Len(call.preBuf \o call.drained) = 2
    /\ call.preBuf # <<>> /\ call.drained # <<>>

\* C10: a Line read splits the buffer at the first byte equal to the configured
\* newline: it returns what precedes it, drops it and keeps what follows; without
\* such a byte it returns the whole buffer and leaves the ReadBuffer empty.
C10_LineSplitsAtFirstNewline ==
    ReadDone(LineTag) =>
        LET b == call.preBuf \o call.drained
            hits == {k \in 1..Len(b) : b[k].v = newline}
        IN IF hits = {}
           THEN call.ret = b /\ read_buffer = <<>>
           ELSE \E k \in hits :
                   /\ \A j \in hits : k <= j
                   /\ call.ret = SubSeq(b, 1, k - 1)
                   /\ read_buffer = SubSeq(b, k + 1, Len(b))

C10_Witness ==
    /\ ReadDone(LineTag)
    /\ newline # NewlineProperty
    /\ Len(call.preBuf \o call.drained) = 2
    /\ Len(read_buffer) = 1
    /\ read_buffer[1].v = newline

\* C11: two Line reads in a row, with no data arriving, on a buffer that holds at
\* least two newlines return the segment before the first newline and then the
\* segment between the first and the second, and leave what follows the second.
C11_ConsecutiveLines ==
    [][(/\ ReadDone(LineTag)
        /\ inq = <<>>
        /\ call'.op = "read" /\ call'.state = "done" /\ ReadType(call'.arg) = LineTag
        /\ DevSerReadChar(call'.arg))
       => LET b == call.preBuf \o call.drained
              hits == {k \in 1..Len(b) : b[k].v = newline}
          IN Cardinality(hits) >= 2 =>
               \E k1, k2 \in hits :
                  /\ k1 < k2
                  /\ \A j \in hits : j = k1 \/ j >= k2
                  /\ call.ret = SubSeq(b, 1, k1 - 1)
                  /\ call'.ret = SubSeq(b, k1 + 1, k2 - 1)
                  /\ read_buffer' = SubSeq(b, k2 + 1, Len(b))]_vars

\* "AB" was returned, "CD" is returned now, "EF" is left
C11_Witness ==
    /\ ReadDone(LineTag)
    /\ Len(call.preBuf) = 5 /\ call.preBuf[1].id = 4 /\ call.preBuf[3].v = newline
    /\ Ids(call.ret) = <<4, 5>>
    /\ Ids(read_buffer) = <<7, 8>>
    /\ consumed = {1, 2, 4, 5}
    /\ \A k \in {1, 2, 4, 5} : call.preBuf[k].v # newline

\* values outside the enumeration or the encoding of the tag's setter
InvalidPair(pair) ==
    \/ pair[1] = ParityTag /\ pair[2] \notin {0, 1, 3}
    \/ pair[1] = CharlengthTag /\ pair[2] \notin 0..3
    \/ pair[1] = StopbitsTag /\ pair[2] \notin 0..2
    \/ pair[1] = NewlineTag /\ pair[2] \notin 0..127

\* the settings after the first n pairs went through their setters, in order
RECURSIVE AfterPairs(_, _, _)
AfterPairs(st, pairs, n) ==
    IF n = 0 THEN st ELSE SetPair(AfterPairs(st, pairs, n - 1), pairs[n]).st

\* C12: DevSerSetParameter with a list of pairs applies the pairs in the order
\* given; it fails exactly when some pair is invalid, and then the settings are
\* those reached by the pairs before the first invalid one: these stay applied,
\* the invalid pair and every pair after it change nothing.
C12_BatchStopsAtFirstInvalid ==
    [][(/\ call'.op = "set_parameter"
        /\ Len(call'.batch) % 2 = 0
        /\ DevSerSetParameter(call'.batch))
       => LET pairs == Pairs(call'.batch)
              bad == {k \in 1..Len(pairs) : InvalidPair(pairs[k])}
              n == IF bad = {} THEN Len(pairs)
                   ELSE (CHOOSE k \in bad : \A j \in bad : k <= j) - 1
          IN /\ Settings' = AfterPairs(Settings, pairs, n)
             /\ (call'.result = "ok") <=> (bad = {})
             /\ call'.applied = n]_vars

\* the batch (Baudrate, 115200), (Parity, 99) changed the baud rate from 9600 and
\* failed, the parity still Even
C12_Witness ==
    /\ call.op = "set_parameter"
    /\ call.batch = <<BaudrateTag, 115200, ParityTag, 99>>
    /\ call.result = "ValueError"
    /\ call.applied = 1
    /\ com.baudrate = 115200
    /\ com.parity = "E"

\* C13: DevSerSetParity, DevSerSetCharLength or DevSerSetStopbit with a value
\* outside its enumeration fails, and parity, character length, stop bits, baud
\* rate, timeout and newline are what they were before the call.
C13_FailedSetterChangesNothing ==
    [][(\/ /\ call'.op = "set_parity" /\ call'.arg \notin {0, 1, 3}
           /\ DevSerSetParity(call'.arg)
        \/ /\ call'.op = "set_charlength" /\ call'.arg \notin 0..3
           /\ DevSerSetCharLength(call'.arg)
        \/ /\ call'.op = "set_stopbits" /\ call'.arg \notin 0..2
           /\ DevSerSetStopbit(call'.arg))
       => /\ call'.result = "ValueError"
          /\ com'.parity = com.parity
          /\ com'.bytesize = com.bytesize
          /\ com'.stopbits = com.stopbits
          /\ com'.baudrate = com.baudrate
          /\ com'.timeout = com.timeout
          /\ newline' = newline]_vars

\* DevSerSetParity(99) failed on a channel whose six settings all differ from
\* the defaults
C13_Witness ==
    /\ call.op = "set_parity"
    /\ call.arg = 99
    /\ call.result = "ValueError"
    /\ com = [baudrate |-> 115200, bytesize |-> 5, parity |-> "E", stopbits |-> "1.5",
              timeout |-> Seconds(200)]
    /\ newline = 65

ParityOf(value) == CASE value = 0 -> "N" [] value = 1 -> "O" [] value = 3 -> "E"
BytesizeOf(value) == CASE value = 0 -> 8 [] value = 1 -> 7 [] value = 2 -> 6 [] value = 3 -> 5
StopbitsOf(value) == CASE value = 0 -> "1" [] value = 1 -> "1.5" [] value = 2 -> "2"

C14_UnknownTagFails ==
    (call.op = "read" /\ call.state = "done") =>
        /\ call.result = "ValueError"
              => /\ ReadType(call.arg) \notin {RawTag, NCharTag, LineTag, RetryTag}
                 /\ call.ret = <<>>
        /\ (/\ call.arg % 16 \notin {RawTag, NCharTag, LineTag, RetryTag}
            /\ call.calls = 1
            /\ ~call.transient)
              => call.result = "ValueError"

\* a read with tag 4 failed while a byte was pending on the channel
C14_Witness ==
    /\ call.op = "read"
    /\ call.arg % 16 = 4
    /\ call.result = "ValueError"
    /\ call.ret = <<>>
    /\ call.drained # <<>>

\* C15: a clear that ran on the open channel did, for option 0, discard the
\* pending input and nothing else; for option 1, wait for the pending output and
\* nothing else (input that arrived meanwhile is kept); for option 2, the output
\* flush and then the input discard, so no input is pending after it; for any
\* other option it failed and input and output are as before.
C15_ClearOptions ==
    [][(/\ call'.op = "clear" /\ call'.calls = 1 /\ ~call'.transient
        /\ DevSerFlush(call'.arg))
       => CASE call'.arg = 0 ->
                 /\ call'.result = "ok" /\ call'.ops = <<"reset_input_buffer">>
                 /\ inq' = <<>> /\ outq' = outq
            [] call'.arg = 1 ->
                 /\ call'.result = "ok" /\ call'.ops = <<"flush">>
                 /\ inq' = inq \o call'.data /\ outq' = <<>>
            [] call'.arg = 2 ->
                 /\ call'.result = "ok" /\ call'.ops = <<"flush", "reset_input_buffer">>
                 /\ inq' = <<>> /\ outq' = <<>>
            [] OTHER ->
                 /\ call'.result = "ValueError" /\ call'.ops = <<>>
                 /\ inq' = inq /\ outq' = outq]_vars

\* a clear(2) during whose flush a byte arrived: the byte is discarded
C15_Witness ==
    /\ call.op = "clear"
    /\ call.arg = 2
    /\ call.result = "ok"
    /\ call.data # <<>>
    /\ inq = <<>>
    /\ outq = <<>>

\* C16: the ReadBuffer is empty when the core object is constructed, and every
\* step that changes it is a read or the construction of a new core object; so a
\* write, a clear with any option and every setter leave it as it was, and what
\* it held when a clear(0) was made is returned by a Raw or Retry read that
\* follows.
C16_OnlyReadChangesBuffer ==
    /\ read_buffer = <<>>
    /\ [][(read_buffer' # read_buffer
             => (call'.op = "read" \/ (call'.connects > 0 /\ read_buffer' = <<>>)))
          /\ ((/\ call.op = "clear" /\ call.arg = 0 /\ call.result = "ok"
               /\ call'.op = "read" /\ call'.result = "ok"
               /\ ReadType(call'.arg) \in {RawTag, RetryTag}
               /\ DevSerReadChar(call'.arg))
             => IsPrefix(read_buffer, call'.ret))]_vars

\* a clear(0) was made while the ReadBuffer held a drained byte
C16_Witness ==
    /\ call.op = "clear"
    /\ call.arg = 0
    /\ call.result = "ok"
    /\ call.ops = <<"reset_input_buffer">>
    /\ read_buffer # <<>>
    /\ IdSet(read_buffer) \subseteq delivered

\* C17: on a loopback channel, a Raw read made right after a write(b) that found
\* the ReadBuffer empty and no input pending returns b followed by one NUL and
\* leaves the ReadBuffer empty.
C17_EchoRoundTrip ==
    [][(/\ call.op = "write" /\ call.result = "ok"
        /\ call.preBuf = <<>> /\ call.drained = <<>>
        /\ call'.op = "read" /\ ReadType(call'.arg) = RawTag
        /\ DevSerReadChar(call'.arg))
       => /\ call'.result = "ok"
          /\ call'.ret = call.data \o <<NulByte>>
          /\ read_buffer' = <<>>]_vars

\* a Raw read found the buffer empty, drained the two bytes of one write and
\* returned them and a NUL
C17_Witness ==
    /\ call.op = "read"
    /\ call.arg = RawTag
    /\ call.result = "ok"
    /\ call.preBuf = <<>>
    /\ Len(call.drained) = 2
    /\ call.drained[2].v = NewlineProperty
    /\ call.ret = call.drained \o <<NulByte>>
    /\ read_buffer = <<>>

\* C18: a read with packed argument p acts as the mode p mod 16 with the numeric
\* argument p div 256: what it returns, what it leaves in the ReadBuffer and the
\* Retry loop it enters are those of the argument with bits 4..7 cleared, and an
\* NChar read returns the first min(p div 256, length) bytes.
C18_PackedArgument ==
    [][(call'.op = "read" /\ DevSerReadChar(call'.arg))
       => LET tag == call'.arg % 16
              arg == call'.arg \div 256
              b == read_buffer \o inq
              d == Dispatch(b, newline, arg * 256 + tag)
          IN /\ call'.ret = d.ret
             /\ read_buffer' = d.buf
             /\ call'.nretry = d.nretry
             /\ (call'.state = "running") <=> (d.kind = "loop")
             /\ tag = NCharTag => call'.ret = SubSeq(b, 1, Min(arg, Len(b)))
             /\ tag = RetryTag => call'.nretry = arg - 1
             /\ tag = RawTag => call'.ret = b \o <<NulByte>>]_vars

\* NChar(1) with bits 4..7 all set returned one byte of a longer buffer
C18_Witness ==
    /\ call.op = "read"
    /\ call.arg = 256 + 15 * 16 + NCharTag
    /\ call.result = "ok"
    /\ Len(call.ret) = 1
    /\ Len(read_buffer) = 2

\* C20: when the charlength, parity or stopbits property is outside its accepted
\* set, opening fails with ValueError, no attempt to open the channel is made and
\* the device is not connected; with accepted properties either the device is
\* opened and connected, or opening fails with CommunicationFailed after exactly
\* one attempt to open the channel and the device is not connected.
C20_OpenFailures ==
    call.op = "init" =>
        IF \/ props.charlength \notin {5, 6, 7, 8}
           \/ Lower(props.parity) \notin {"none", "empty", "even", "odd"}
           \/ props.stopbits \notin {1, 2}
        THEN call.result = "ValueError" /\ call.opens = 0 /\ ~connected
        ELSE /\ call.opens = 1
             /\ \/ call.result = "CommunicationFailed" /\ ~connected
                \/ call.result = "none" /\ connected

\* opening with parity "bad" and accepted charlength and stopbits failed before
\* any attempt to open the channel
C20_Witness ==
    /\ call.op = "init"
    /\ props.parity = "bad"
    /\ props.charlength = 7
    /\ props.stopbits = 2
    /\ call.result = "ValueError"
    /\ call.opens = 0
    /\ ~connected

\* C21: every read ends. A Raw, NChar or Line read returns in the step that makes
\* its one drain; a Retry read makes at most `attempts` loop iterations, never
\* goes on after a loop drain that found nothing, and a read that is in its loop
\* eventually returns, whatever arrives meanwhile.
C21_ReadsTerminate ==
    /\ [][(/\ call'.op = "read"
            /\ ReadType(call'.arg) \in {RawTag, NCharTag, LineTag}
            /\ DevSerReadChar(call'.arg))
           => (/\ call'.state = "done"
               /\ (call'.calls = 1 /\ ~call'.transient)
                     => (call'.drained = inq /\ call'.i = 0))]_vars
    /\ [](call.op = "read" /\ ReadType(call.arg) = RetryTag
            => (/\ call.i <= call.arg \div 256
                /\ (call.state = "running" /\ call.i > 0) => ~call.lastEmpty))
    /\ ((call.state = "running") ~> (call.state = "done"))

\* a Retry(3) read returned after two loop iterations that both found data
C21_Witness ==
    /\ call.op = "read"
    /\ call.arg = 3 * 256 + RetryTag
    /\ call.state = "done"
    /\ call.result = "ok"
    /\ call.i = 2
    /\ ~call.lastEmpty
    /\ Len(call.drained) = 2

\* C22: DevSerReadNBinData(n) on a connected device raises no error and returns
\* the first n of the characters available (buffered or pending), all of them
\* when there are fewer than n, none when there are none.
C22_ReadNBinDataReturnsFirstN ==
    [][(/\ connected /\ comOk
        /\ call'.op = "read_nchars"
        /\ DevSerReadNBinData(call'.arg))
       => (/\ call'.result = "ok"
           /\ call'.ret = SubSeq(read_buffer \o inq, 1, Min(call'.arg, Len(read_buffer \o inq))))]_vars

\* the step leaves the settings at st and touches neither the channel's pending
\* input and output, nor the ReadBuffer, nor the connection
OnlySettingsChange(st) ==
    /\ Settings' = st
    /\ inq' = inq /\ outq' = outq /\ comOk' = comOk
    /\ connected' = connected /\ read_buffer' = read_buffer
    /\ call'.connects = 0 /\ call'.opens = 0

\* C23: a setter command that succeeds changes its own setting to the value given
\* and nothing else: the five other settings, the pending input and output of
\* the channel and the connection are as before, and no channel is opened.
C23_SetterChangesOnlyItsField ==
    [][LET a == call'.arg IN
       /\ (call'.op = "set_baudrate" /\ call'.result = "ok" /\ DevSerSetBaudrate(a))
            => OnlySettingsChange([Settings EXCEPT !.com.baudrate = a])
       /\ (call'.op = "set_charlength" /\ call'.result = "ok" /\ DevSerSetCharLength(a))
            => OnlySettingsChange([Settings EXCEPT !.com.bytesize = BytesizeOf(a)])
       /\ (call'.op = "set_parity" /\ call'.result = "ok" /\ DevSerSetParity(a))
            => OnlySettingsChange([Settings EXCEPT !.com.parity = ParityOf(a)])
       /\ (call'.op = "set_stopbits" /\ call'.result = "ok" /\ DevSerSetStopbit(a))
            => OnlySettingsChange([Settings EXCEPT !.com.stopbits = StopbitsOf(a)])
       /\ (call'.op = "set_timeout" /\ call'.result = "ok" /\ DevSerSetTimeout(a))
            => OnlySettingsChange([Settings EXCEPT !.com.timeout = [num |-> a, den |-> 1000]])
       /\ (call'.op = "set_newline" /\ call'.result = "ok" /\ DevSerSetNewline(a))
            => OnlySettingsChange([Settings EXCEPT !.newline = a])]_vars

\* DevSerSetBaudrate(115200) succeeded on a channel with pending input and
\* output whose other settings had all been changed before
C23_Witness ==
    /\ call.op = "set_baudrate"
    /\ call.result = "ok"
    /\ com = [baudrate |-> 115200, bytesize |-> 7, parity |-> "E", stopbits |-> "2",
              timeout |-> Seconds(200)]
    /\ newline = 65
    /\ inq # <<>>
    /\ outq # <<>>

\* the bytes drained from the channel that are neither in the ReadBuffer, nor
\* returned by a call, nor a separator that a Line call removed
Lost == (1..nArrived) \ (IdSet(inq) \cup IdSet(read_buffer) \cup delivered \cup readers.dropped)
NoReadInFlight == \A t \in Threads : Reader(t).pc = "idle"

\* C24: as long as no two read calls have been in flight at once, no byte has
\* been returned by two Raw, NChar or Line calls, and between calls every byte
\* drained is in the ReadBuffer or has been returned. (That both happen when
\* calls overlap is the state C24_Witness.)
C24_SerializedReadsNeitherRepeatNorLose ==
    ~readers.raced =>
        /\ readers.twice = {}
        /\ NoReadInFlight => Lost = {}

\* two NChar(1) calls overlapped: both returned byte 1, and byte 2 was drained
\* and is returned by neither and no longer in the ReadBuffer
C24_Witness ==
    /\ NoReadInFlight
    /\ readers.raced
    /\ \A t \in Threads : Ids(Reader(t).ret) = <<1>>
    /\ readers.twice = {1}
    /\ Lost = {2}
    /\ read_buffer = <<>>

\* C25: WriteRead writes the message before the read makes its drain, and when
\* the write succeeded and the read is one of the four modes on the connected
\* device, the call does not fail and returns the bytes of that read, decoded.
C25_WriteReadReturnsDecodedRead ==
    [][(/\ call.op = "write_read" /\ call.state = "wrote"
        /\ call.arg % 16 \in {RawTag, NCharTag, LineTag, RetryTag}
        /\ WriteReadRead)
       => LET d == Dispatch(read_buffer \o inq, newline, call.arg) IN
          /\ call'.result = "ok"
          /\ Len(call'.ret) <= Len(d.ret)
          /\ Utf8Decode(Values(d.ret)).chars = call'.ret
          /\ call'.data = call.data]_vars

\* C26: the bytes that the ReadBuffer held when a reconnection replaced the core
\* object are gone: they are neither in the new ReadBuffer nor pending on the
\* channel, and no read call that returns afterwards returns one of them.
C26_ReconnectDropsBuffer ==
    /\ [](discarded \cap (IdSet(read_buffer) \cup IdSet(inq)) = {})
    /\ [][ReadReturned => (IdSet(call'.ret) \cap discarded = {})]_vars

\* byte 1 was in the ReadBuffer at a reconnection; a later Raw read returned
\* byte 2 only
C26_Witness ==
    /\ discarded = {1}
    /\ ReadDone(RawTag)
    /\ call.calls = 1
    /\ Ids(call.ret) = <<2, 0>>
    /\ read_buffer = <<>>

\* C27: a read, write or clear command issued while the device is not connected
\* makes one call of connect and does not call the core method: nothing is
\* written, nothing is drained or returned, and the command has no result, also
\* when the connect succeeds (when it fails, its error is the outcome).
C27_NotConnectedOnlyConnects ==
    [][(/\ ~connected
        /\ \/ call'.op = "read" /\ DevSerReadChar(call'.arg)
           \/ call'.op = "write" /\ \E chars \in WriteInputs : DevSerWriteChar(chars)
           \/ call'.op = "clear" /\ DevSerFlush(call'.arg))
       => (/\ call'.connects = 1 /\ call'.opens <= 1
           /\ call'.calls = 0
           /\ call'.state = "done"
           /\ call'.ret = <<>>
           /\ call'.result = IF connected' THEN "none" ELSE "CommunicationFailed"
           /\ outq' = <<>>
           /\ read_buffer' \in {<<>>, read_buffer}
           /\ delivered' = delivered /\ consumed' = consumed)]_vars

\* a write issued while not connected connected the device and wrote nothing
C27_Witness ==
    /\ call.op = "write"
    /\ call.connects = 1
    /\ call.calls = 0
    /\ call.result = "none"
    /\ connected
    /\ outq = <<>>
    /\ discarded # {}

ParameterTags == {TimeoutTag, ParityTag, CharlengthTag, StopbitsTag, BaudrateTag, NewlineTag}

\* C28: in DevSerSetParameter the pairs whose tag is none of 3..8 count for
\* nothing: the outcome and the settings are those of the same batch without
\* these pairs, and a batch of such pairs only succeeds and changes no setting.
C28_UnknownTagSkipped ==
    [][(/\ call'.op = "set_parameter"
        /\ Len(call'.batch) % 2 = 0
        /\ DevSerSetParameter(call'.batch))
       => LET pairs == Pairs(call'.batch)
              known == SelectSeq(pairs, LAMBDA pr : pr[1] \in ParameterTags)
              r == SetParameter(Settings, known)
          IN /\ call'.result = r.err
             /\ Settings' = r.st
             /\ known = <<>> => (call'.result = "ok" /\ Settings' = Settings)
             /\ call'.result = "ok" => call'.applied = Len(pairs)]_vars

\* the batch (9, 0), (Baudrate, 115200) succeeded with both pairs processed and
\* changed the baud rate of a channel whose parity and stop bits had been set
C28_Witness ==
    /\ call.op = "set_parameter"
    /\ call.batch = <<9, 0, BaudrateTag, 115200>>
    /\ call.result = "ok"
    /\ call.applied = 2
    /\ com = [baudrate |-> 115200, bytesize |-> 8, parity |-> "E", stopbits |-> "1.5",
              timeout |-> Seconds(100)]

====
